---- MODULE Spec2Model ----
(***************************************************************************)
(* PolicyGuard: the action-validation and policy-decision engine.          *)
(*                                                                         *)
(* The persistent store holds four collections (agents.json,               *)
(* policies.json, audit_log.json, incidents.json).  Every tool call reads  *)
(* the collections it needs, decides, and writes back; calls are executed  *)
(* one at a time (one action of the model per call).  The last             *)
(* specification lets calls overlap: there every read and every write of   *)
(* a collection is a step, and calls holds what each call in flight has    *)
(* read.                                                                   *)
(*                                                                         *)
(* Representation.                                                         *)
(*  - A string that is pattern-matched (a target, an action type, a glob   *)
(*    pattern) is a tuple of one-character strings, so that the matcher    *)
(*    works on its characters.  Identifiers (agent ids, policy ids, trust  *)
(*    levels, rule actions, messages) are atomic strings.                  *)
(*  - An optional dict key is <<>> when missing and <<v>> when present;    *)
(*    Get(o, d) is Python's dict.get(key, d).                              *)
(*  - A JSON text argument is a record: the empty string, a text that       *)
(*    json.loads parses (with the value it parses to), or a text it        *)
(*    rejects.                                                             *)
(*  - get_timestamp() is the value of clock after the call's tick, and     *)
(*    generate_id() returns a fresh value: the tick of the call (a call    *)
(*    draws at most one id per prefix).                                    *)
(***************************************************************************)
EXTENDS Integers, Sequences, FiniteSets, TLC

VARIABLES agents, policies, audit_log, incidents, clock, result, calls

vars == <<agents, policies, audit_log, incidents, clock, result, calls>>

-----------------------------------------------------------------------------
(* Bounds of the model *)

\* calls explored from the empty store
MaxCalls == 3

\* append_to_json_list's max_items (1000 in the source), scaled down
max_items == 2

-----------------------------------------------------------------------------
(* Optional values: dict keys that may be missing *)

Absent == <<>>

Some(v) == <<v>>

Get(o, d) == IF o = <<>> THEN d ELSE o[1]

-----------------------------------------------------------------------------
(* JSON texts: the string arguments the tools hand to json.loads *)

\* "", the default of the argument
EmptyText == [kind |-> "empty", value |-> <<>>]

\* a text json.loads parses to value
Json(value) == [kind |-> "json", value |-> value]

\* a text json.loads rejects with JSONDecodeError
Malformed == [kind |-> "malformed", value |-> <<>>]

\* a faulty variant: a text that does not parse is kept, as a value of one item
loads_or_kept(text, default) ==
    IF text.kind = "json" THEN text.value
    ELSE IF text.kind = "empty" THEN default
    ELSE <<<<"?">>>>

\* "try: x = json.loads(text) if text else default
\*  except json.JSONDecodeError: x = default"
loads_or(text, default) == IF text.kind = "json" THEN text.value ELSE default

-----------------------------------------------------------------------------
(* Pattern matcher: validate_action._match_pattern *)

\* str.lower() of one character, as re.IGNORECASE compares
Lower(c) == IF c = "D" THEN "d" ELSE c

\* re.compile raises re.error for a '[' that no ']' closes
\* (the alphabet of the model has no ']')
PatternRaises(pattern) == \E i \in 1..Len(pattern) : pattern[i] = "["

\* the line feed: without re.DOTALL '.' does not match it, and without \Z
\* the '$' of the regex also matches in front of a line feed that ends the value
NL == "\n"

\* pattern.replace("*", ".*"): the regex tokens of the pattern, one per
\* character: '*' is ".*", '.' stays the regex any-character, every other
\* character of the alphabet is a literal
RECURSIVE RegexMatch(_, _, _, _)
RegexMatch(pattern, i, value, j) ==
    IF i > Len(pattern)
    THEN \/ j > Len(value)
         \/ j = Len(value) /\ value[j] = NL
    ELSE IF pattern[i] = "*"
         THEN \/ RegexMatch(pattern, i + 1, value, j)
              \/ /\ j <= Len(value)
                 /\ value[j] # NL
                 /\ RegexMatch(pattern, i, value, j + 1)
         ELSE IF pattern[i] = "."
              THEN /\ j <= Len(value)
                   /\ value[j] # NL
                   /\ RegexMatch(pattern, i + 1, value, j + 1)
              ELSE /\ j <= Len(value)
                   /\ Lower(pattern[i]) = Lower(value[j])
                   /\ RegexMatch(pattern, i + 1, value, j + 1)

\* _match_pattern when it returns (PatternRaises tells when it does not)
match_pattern(pattern, value) ==
    IF pattern = <<"*">> THEN TRUE ELSE RegexMatch(pattern, 1, value, 1)

\* _match_pattern raises: the early return for "*" comes before re.match
match_raises(pattern) == pattern # <<"*">> /\ PatternRaises(pattern)

-----------------------------------------------------------------------------
(* Decision evaluator: validate_action._evaluate_policies *)

\* trust_levels.get(level, 1)
\* a faulty variant: medium and high have each other's score
trust_score_swapped(level) ==
    CASE level = "low" -> 1
      [] level = "medium" -> 3
      [] level = "high" -> 2
      [] level = "admin" -> 4
      [] OTHER -> 1

trust_score(level) ==
    CASE level = "low" -> 1
      [] level = "medium" -> 2
      [] level = "high" -> 3
      [] level = "admin" -> 4
      [] OTHER -> 1

Reason(kind, a, b) == [kind |-> kind, a |-> a, b |-> b]

\* the dict a return statement of _evaluate_policies builds
EvalDict(allowed, approval, reason, matched) ==
    [raised |-> FALSE, allowed |-> allowed, require_approval |-> approval,
     reason |-> reason, policy_matched |-> matched]

\* an exception leaving _evaluate_policies (re.error from _match_pattern)
EvalRaised ==
    [raised |-> TRUE, allowed |-> FALSE, require_approval |-> Absent,
     reason |-> Reason("re.error", "", ""), policy_matched |-> ""]

\* what one pass of a loop body does: go on, return a dict, or raise
Continue == [kind |-> "continue", value |-> EvalRaised]

Return(d) == [kind |-> "return", value |-> d]

Raise == [kind |-> "raise", value |-> EvalRaised]

\* for pattern in denied_tools: if _match_pattern(pattern, target): return deny
RECURSIVE denied_scan(_, _, _)
denied_scan(denied_tools, i, target) ==
    IF i > Len(denied_tools) THEN Continue
    ELSE IF match_raises(denied_tools[i]) THEN Raise
    ELSE IF match_pattern(denied_tools[i], target)
         THEN Return(EvalDict(FALSE, Absent, Reason("explicitly_denied", "", ""),
                              "agent_denied_tools"))
         ELSE denied_scan(denied_tools, i + 1, target)

\* for pattern in allowed_tools: if match: tool_allowed = True; break
\* "found", "missing" or "raise"
RECURSIVE allowed_scan(_, _, _)
allowed_scan(allowed_tools, i, target) ==
    IF i > Len(allowed_tools) THEN "missing"
    ELSE IF match_raises(allowed_tools[i]) THEN "raise"
    ELSE IF match_pattern(allowed_tools[i], target) THEN "found"
         ELSE allowed_scan(allowed_tools, i + 1, target)

\* if allowed_tools and allowed_tools != ["*"]: ... deny when not found
allowed_step(allowed_tools, target) ==
    IF allowed_tools # <<>> /\ allowed_tools # << <<"*">> >>
    THEN LET found == allowed_scan(allowed_tools, 1, target)
         IN  IF found = "raise" THEN Raise
             ELSE IF found = "missing"
                  THEN Return(EvalDict(FALSE, Absent, Reason("not_in_allowed_list", "", ""),
                                       "agent_allowed_tools"))
                  ELSE Continue
    ELSE Continue

\* a faulty variant: the clause blocks whatever the action of the rule is
at_least_step_any_action(rule, policy, trust_level) ==
    LET required_trust == rule.condition.trust_level_at_least
    IN  IF /\ required_trust # ""
           /\ trust_score(trust_level) < trust_score(required_trust)
        THEN Return(EvalDict(FALSE, Absent,
                             Reason("requires_trust", required_trust, trust_level),
                             policy.id))
        ELSE Continue

\* the trust_level_at_least clause of one rule
at_least_step(rule, policy, trust_level) ==
    LET required_trust == rule.condition.trust_level_at_least
    IN  IF /\ required_trust # ""
           /\ trust_score(trust_level) < trust_score(required_trust)
           /\ Get(rule.action, "deny") = "deny"
        THEN Return(EvalDict(FALSE, Absent,
                             Reason("requires_trust", required_trust, trust_level),
                             policy.id))
        ELSE Continue

\* a faulty variant: the named level itself is taken for being below it
below_applies_inclusive(trust_level, below_trust) ==
    below_trust # "" /\ trust_score(trust_level) <= trust_score(below_trust)

\* "if below_trust: ... if agent_trust_score < below_score"
below_applies(trust_level, below_trust) ==
    below_trust # "" /\ trust_score(trust_level) < trust_score(below_trust)

\* a faulty variant: a require_approval rule denies without asking for approval
below_step_no_approval(rule, policy, trust_level) ==
    LET below_trust == rule.condition.trust_level_below
        action == Get(rule.action, "deny")
    IN  IF below_applies(trust_level, below_trust) /\ action \in {"deny", "require_approval"}
        THEN Return(EvalDict(FALSE, Absent,
                             IF rule.message = Absent
                             THEN Reason("denied_by_policy", policy.id, "")
                             ELSE Reason("message", rule.message[1], ""),
                             policy.id))
        ELSE Continue

\* the trust_level_below clause of one rule
\* a faulty variant: a request that needs approval is returned as allowed
below_step_approval_allowed(rule, policy, trust_level) ==
    LET below_trust == rule.condition.trust_level_below
        action == Get(rule.action, "deny")
    IN  IF below_applies(trust_level, below_trust)
        THEN IF action = "deny"
             THEN Return(EvalDict(FALSE, Absent,
                                  IF rule.message = Absent
                                  THEN Reason("denied_by_policy", policy.id, "")
                                  ELSE Reason("message", rule.message[1], ""),
                                  policy.id))
             ELSE IF action = "require_approval"
                  THEN Return(EvalDict(TRUE, Some(TRUE),
                                       IF rule.message = Absent
                                       THEN Reason("requires_human_approval", "", "")
                                       ELSE Reason("message", rule.message[1], ""),
                                       policy.id))
                  ELSE Continue
        ELSE Continue

below_step(rule, policy, trust_level) ==
    LET below_trust == rule.condition.trust_level_below
        action == Get(rule.action, "deny")
    IN  IF below_applies(trust_level, below_trust)
        THEN IF action = "deny"
             THEN Return(EvalDict(FALSE, Absent,
                                  IF rule.message = Absent
                                  THEN Reason("denied_by_policy", policy.id, "")
                                  ELSE Reason("message", rule.message[1], ""),
                                  policy.id))
             ELSE IF action = "require_approval"
                  THEN Return(EvalDict(FALSE, Some(TRUE),
                                       IF rule.message = Absent
                                       THEN Reason("requires_human_approval", "", "")
                                       ELSE Reason("message", rule.message[1], ""),
                                       policy.id))
                  ELSE Continue
        ELSE Continue

\* the body of "for rule in rules"
rule_step(rule, policy, action_type, target, trust_level) ==
    LET tool_pattern == rule.condition.tool_pattern
        action_pattern == rule.condition.action_type
    IN  IF tool_pattern # <<>> /\ match_raises(tool_pattern) THEN Raise
        ELSE IF tool_pattern # <<>> /\ ~match_pattern(tool_pattern, target) THEN Continue
        ELSE IF action_pattern # <<>> /\ match_raises(action_pattern) THEN Raise
        ELSE IF action_pattern # <<>> /\ ~match_pattern(action_pattern, action_type)
             THEN Continue
        ELSE LET first == at_least_step(rule, policy, trust_level)
             IN  IF first.kind # "continue" THEN first
                 ELSE below_step(rule, policy, trust_level)

RECURSIVE rules_scan(_, _, _, _, _)
rules_scan(policy, j, action_type, target, trust_level) ==
    IF j > Len(policy.rules) THEN Continue
    ELSE LET step == rule_step(policy.rules[j], policy, action_type, target, trust_level)
         IN  IF step.kind # "continue" THEN step
             ELSE rules_scan(policy, j + 1, action_type, target, trust_level)

\* a faulty variant: the enabled flag of a policy is not looked at
RECURSIVE policies_scan_all(_, _, _, _, _)
policies_scan_all(pols, i, action_type, target, trust_level) ==
    IF i > Len(pols) THEN Continue
    ELSE LET step == rules_scan(pols[i], 1, action_type, target, trust_level)
         IN  IF step.kind # "continue" THEN step
             ELSE policies_scan_all(pols, i + 1, action_type, target, trust_level)

\* for policy in policies: if not policy.get("enabled", True): continue
RECURSIVE policies_scan(_, _, _, _, _)
policies_scan(pols, i, action_type, target, trust_level) ==
    IF i > Len(pols) THEN Continue
    ELSE IF ~pols[i].enabled
         THEN policies_scan(pols, i + 1, action_type, target, trust_level)
         ELSE LET step == rules_scan(pols[i], 1, action_type, target, trust_level)
              IN  IF step.kind # "continue" THEN step
                  ELSE policies_scan(pols, i + 1, action_type, target, trust_level)

default_allow ==
    EvalDict(TRUE, Absent, Reason("default_policy", "", ""), "default_allow")

\* _evaluate_policies(action_type, target, agent_id, parameters, agents, policies)
\* for an agent_id present in ags (validate_action has stored it by then)
evaluate_policies(action_type, target, agent_id, ags, pols) ==
    LET agent == ags[agent_id]
        allowed_tools == Get(agent.allowed_tools, <<>>)
        denied_tools == Get(agent.denied_tools, <<>>)
        denied == IF denied_tools # <<>>
                  THEN denied_scan(denied_tools, 1, target)
                  ELSE Continue
    IN  IF denied.kind # "continue" THEN denied.value
        ELSE LET allowed == allowed_step(allowed_tools, target)
             IN  IF allowed.kind # "continue" THEN allowed.value
                 ELSE LET ruled == policies_scan(pols, 1, action_type, target,
                                                 agent.trust_level)
                      IN  IF ruled.kind # "continue" THEN ruled.value
                          ELSE default_allow

-----------------------------------------------------------------------------
(* Persistent store: core/utils.py *)

\* a faulty variant: a full list keeps its oldest entries and loses the new one
append_keep_oldest(data, item) ==
    LET d == Append(data, item)
    IN  IF Len(d) > max_items THEN SubSeq(d, 1, max_items) ELSE d

\* append_to_json_list: data.append(item); keep only the last max_items
append_to_json_list(data, item) ==
    LET d == Append(data, item)
    IN  IF Len(d) > max_items THEN SubSeq(d, Len(d) - max_items + 1, Len(d)) ELSE d

\* what a write of a collection can come to
SaveOutcomes == {"saved", "failed", "truncated"}

\* the collection a later load_json_file returns after save_json_file(data):
\* data; the old one when open() fails; the default of the load when
\* json.dump fails on the file it has truncated
save_json_file(old, data, outcome) ==
    CASE outcome = "saved" -> data
      [] outcome = "failed" -> old
      [] OTHER -> <<>>

\* the audit entry every tool builds; action_id only for validate_action,
\* whose entry carries the action type and the parsed parameters of the call
\* (the parameters of the other tools' entries are left out)
AuditEntry(id, action_id, timestamp, agent_id, type, target, parameters, allowed, approval, reason) ==
    [entry_id |-> id, action_id |-> action_id, timestamp |-> timestamp,
     agent_id |-> agent_id, type |-> type, target |-> target,
     parameters |-> parameters,
     allowed |-> allowed, require_approval |-> approval, reason |-> reason]

Incident(id, timestamp, type, severity, agent_id, action_id, status) ==
    [incident_id |-> id, timestamp |-> timestamp, type |-> type,
     severity |-> severity, agent_id |-> agent_id, action_id |-> action_id,
     status |-> status]

NoResult == [op |-> "none", raised |-> FALSE]

Init ==
    /\ agents = [a \in {} |-> 0]
    /\ policies = <<>>
    /\ audit_log = <<>>
    /\ incidents = <<>>
    /\ clock = 0
    /\ result = NoResult
    /\ calls = <<>>

-----------------------------------------------------------------------------
(* validate_action *)

\* a faulty variant: unknown agents get the default trust of register_agent
auto_registered_medium(timestamp) ==
    [trust_level |-> "medium", allowed_tools |-> Absent, denied_tools |-> Absent,
     status |-> Absent, auto_registered |-> TRUE, registered_at |-> timestamp,
     updated_at |-> Absent, suspended_at |-> Absent, suspension_reason |-> Absent]

\* the record of an agent validate_action has never seen
auto_registered_agent(timestamp) ==
    [trust_level |-> "low", allowed_tools |-> Absent, denied_tools |-> Absent,
     status |-> Absent, auto_registered |-> TRUE, registered_at |-> timestamp,
     updated_at |-> Absent, suspended_at |-> Absent, suspension_reason |-> Absent]

\* a faulty variant: the record of the requesting agent is always rewritten
with_auto_registered_always(ags, agent_id, timestamp) ==
    [a \in DOMAIN ags \cup {agent_id} |->
        IF a = agent_id THEN auto_registered_agent(timestamp) ELSE ags[a]]

\* agents after "if agent_id not in agents: ...; save_json_file(...)"
with_auto_registered(ags, agent_id, timestamp) ==
    IF agent_id \in DOMAIN ags
    THEN ags
    ELSE ags @@ (agent_id :> auto_registered_agent(timestamp))

\* a faulty variant: the status of the agent is never looked at
validate_result_unchecked(action_id, action_type, target, agent_id, ags, pols) ==
    LET eval_result == evaluate_policies(action_type, target, agent_id, ags, pols)
    IN  [raised |-> eval_result.raised, action_id |-> action_id,
         allowed |-> eval_result.allowed,
         require_approval |-> Some(Get(eval_result.require_approval, FALSE)),
         reason |-> eval_result.reason, warnings |-> <<>>]

\* the result dict of validate_action, before json.dumps
validate_result(action_id, action_type, target, agent_id, ags, pols) ==
    IF ags[agent_id].status = Some("suspended")
    THEN [raised |-> FALSE, action_id |-> action_id, allowed |-> FALSE,
          require_approval |-> Absent, reason |-> Reason("suspended", agent_id, ""),
          warnings |-> <<>>]
    ELSE LET eval_result == evaluate_policies(action_type, target, agent_id, ags, pols)
         IN  [raised |-> eval_result.raised, action_id |-> action_id,
              allowed |-> eval_result.allowed,
              require_approval |-> Some(Get(eval_result.require_approval, FALSE)),
              reason |-> eval_result.reason, warnings |-> <<>>]

\* a faulty variant: a require-approval outcome is not taken for a denial
incident_due_hard(res) == ~res.allowed /\ ~Get(res.require_approval, FALSE)

\* "if not result['allowed']": the denial is also logged as an incident
incident_due(res) == ~res.allowed

validate_action(action_type, target, agent_id, parameters) ==
    LET params == loads_or(parameters, <<>>)
        timestamp == clock + 1
        action_id == clock + 1
        ags == with_auto_registered(agents, agent_id, timestamp)
        res == validate_result(action_id, action_type, target, agent_id, ags, policies)
        audit_entry == AuditEntry(clock + 1, Some(action_id), timestamp, agent_id,
                                  action_type, target, Some(params), res.allowed,
                                  Some(Get(res.require_approval, FALSE)), res.reason)
        incident == Incident(clock + 1, timestamp, "policy_violation", "medium",
                             Some(agent_id), Some(action_id), Absent)
    IN  /\ clock' = clock + 1
        /\ agents' = ags
        /\ UNCHANGED <<policies, calls>>
        /\ result' = [op |-> "validate_action", raised |-> res.raised,
                      action_type |-> action_type, target |-> target,
                      agent_id |-> agent_id, parameters |-> parameters,
                      ret |-> res]
        /\ IF res.raised
           THEN UNCHANGED <<audit_log, incidents>>
           ELSE /\ audit_log' = append_to_json_list(audit_log, audit_entry)
                /\ incidents' = IF incident_due(res)
                                THEN append_to_json_list(incidents, incident)
                                ELSE incidents

-----------------------------------------------------------------------------
(* register_agent *)

\* a faulty variant: a level outside the four is taken as well
valid_trust_levels_open == {"low", "medium", "high", "admin", "root"}

valid_trust_levels == {"low", "medium", "high", "admin"}

\* warnings of a successful registration
registration_warnings(trust_level, allowed_list, denied_list) ==
    (IF trust_level = "admin" THEN <<"admin_trust">> ELSE <<>>)
    \o (IF allowed_list = <<>> /\ denied_list = <<>> THEN <<"no_restrictions">> ELSE <<>>)

\* a faulty variant: every registration stamps registered_at anew
agent_record_restamped(ags, agent_id, trust_level, allowed_list, denied_list, timestamp) ==
    [trust_level |-> trust_level, allowed_tools |-> Some(allowed_list),
     denied_tools |-> Some(denied_list), status |-> Some("active"),
     auto_registered |-> FALSE, registered_at |-> timestamp,
     updated_at |-> Some(timestamp), suspended_at |-> Absent,
     suspension_reason |-> Absent]

\* agent_record: a new dict, so no suspension keys survive a registration
\* a faulty variant: the record of a known agent is updated in place, its
\* status and suspension kept
agent_record_keeps_status(ags, agent_id, trust_level, allowed_list, denied_list, timestamp) ==
    [trust_level |-> trust_level, allowed_tools |-> Some(allowed_list),
     denied_tools |-> Some(denied_list),
     status |-> IF agent_id \in DOMAIN ags /\ ags[agent_id].status # Absent
                THEN ags[agent_id].status
                ELSE Some("active"),
     auto_registered |-> FALSE,
     registered_at |-> IF agent_id \in DOMAIN ags
                       THEN ags[agent_id].registered_at
                       ELSE timestamp,
     updated_at |-> Some(timestamp),
     suspended_at |-> IF agent_id \in DOMAIN ags
                      THEN ags[agent_id].suspended_at
                      ELSE Absent,
     suspension_reason |-> IF agent_id \in DOMAIN ags
                           THEN ags[agent_id].suspension_reason
                           ELSE Absent]

agent_record(ags, agent_id, trust_level, allowed_list, denied_list, timestamp) ==
    [trust_level |-> trust_level, allowed_tools |-> Some(allowed_list),
     denied_tools |-> Some(denied_list), status |-> Some("active"),
     auto_registered |-> FALSE,
     registered_at |-> IF agent_id \in DOMAIN ags
                       THEN ags[agent_id].registered_at
                       ELSE timestamp,
     updated_at |-> Some(timestamp), suspended_at |-> Absent,
     suspension_reason |-> Absent]

\* a faulty variant: the record is saved alone, the other agents are lost
put_agent_alone(ags, agent_id, record) == agent_id :> record

\* agents[agent_id] = agent_record
put_agent(ags, agent_id, record) ==
    [a \in DOMAIN ags \cup {agent_id} |-> IF a = agent_id THEN record ELSE ags[a]]

register_agent(agent_id, trust_level, allowed_tools, denied_tools, outcome) ==
    LET timestamp == clock + 1
        allowed_list == loads_or(allowed_tools, <<>>)
        denied_list == loads_or(denied_tools, <<>>)
        input == [agent_id |-> agent_id, trust_level |-> trust_level,
                  allowed_tools |-> allowed_tools, denied_tools |-> denied_tools]
    IN  /\ clock' = clock + 1
        /\ UNCHANGED <<policies, incidents, calls>>
        /\ IF trust_level \notin valid_trust_levels
           THEN /\ UNCHANGED <<agents, audit_log>>
                /\ result' = [op |-> "register_agent", raised |-> FALSE, input |-> input,
                              store |-> "unused",
                              ret |-> [success |-> FALSE, is_update |-> FALSE,
                                       warnings |-> <<>>]]
           ELSE /\ agents' = save_json_file(agents,
                                  put_agent(agents, agent_id,
                                            agent_record(agents, agent_id, trust_level,
                                                         allowed_list, denied_list,
                                                         timestamp)),
                                  outcome)
                /\ audit_log' = append_to_json_list(audit_log,
                                    AuditEntry(clock + 1, Absent, timestamp,
                                               "guardian-system", <<"agent_registration">>,
                                               <<agent_id>>, Absent, TRUE, Absent,
                                               Reason("registration_completed", "", "")))
                /\ result' = [op |-> "register_agent", raised |-> FALSE, input |-> input,
                              store |-> outcome,
                              ret |-> [success |-> TRUE,
                                       is_update |-> agent_id \in DOMAIN agents,
                                       warnings |-> registration_warnings(
                                                        trust_level, allowed_list,
                                                        denied_list)]]

-----------------------------------------------------------------------------
(* create_policy *)

valid_actions == {"allow", "deny", "require_approval"}

\* a condition dict is falsy when it has no key
EmptyCondition ==
    [tool_pattern |-> <<>>, action_type |-> <<>>,
     trust_level_at_least |-> "", trust_level_below |-> ""]

\* a faulty variant: the action of a rule is not checked
rule_error_unchecked_action(rule) ==
    IF ~rule.is_dict THEN "must be an object"
    ELSE IF rule.condition = EmptyCondition THEN "must have a condition"
    ELSE ""

\* the check of rule i in _validate_policy_rules: "" when the rule passes
rule_error(rule) ==
    IF ~rule.is_dict THEN "must be an object"
    ELSE IF rule.condition = EmptyCondition THEN "must have a condition"
    ELSE IF Get(rule.action, "deny") \notin valid_actions THEN "invalid action"
    ELSE ""

\* _validate_policy_rules: the first error in rule order, "" when valid
RECURSIVE rules_error_from(_, _)
rules_error_from(rules, i) ==
    IF i > Len(rules) THEN ""
    ELSE IF rule_error(rules[i]) # "" THEN rule_error(rules[i])
    ELSE rules_error_from(rules, i + 1)

validate_policy_rules(rules) ==
    IF rules = <<>> THEN "at least one rule" ELSE rules_error_from(rules, 1)

\* the first index holding policy_id, 0 for None
RECURSIVE existing_idx_from(_, _, _)
existing_idx_from(pols, policy_id, i) ==
    IF i > Len(pols) THEN 0
    ELSE IF pols[i].id = policy_id THEN i
    ELSE existing_idx_from(pols, policy_id, i + 1)

\* where a stable descending sort puts p among the already sorted pols:
\* after every policy whose priority is not lower
RECURSIVE insert_by_priority(_, _)
insert_by_priority(sorted, p) ==
    IF sorted = <<>> THEN <<p>>
    ELSE IF sorted[1].priority >= p.priority
         THEN <<sorted[1]>> \o insert_by_priority(Tail(sorted), p)
         ELSE <<p>> \o sorted

\* policies.sort(key=priority, reverse=True): stable, equal keys keep their order
RECURSIVE sort_by_priority_from(_, _, _)
sort_by_priority_from(pols, i, sorted) ==
    IF i > Len(pols) THEN sorted
    ELSE sort_by_priority_from(pols, i + 1, insert_by_priority(sorted, pols[i]))

\* a faulty variant: the list is saved in the order of its writes
unsorted(pols) == pols

sort_by_priority(pols) == sort_by_priority_from(pols, 1, <<>>)

policy_record(pols, existing_idx, policy_id, rules, priority, enabled, timestamp) ==
    [id |-> policy_id, rules |-> rules, priority |-> priority, enabled |-> enabled,
     created_at |-> IF existing_idx # 0 THEN pols[existing_idx].created_at ELSE timestamp,
     updated_at |-> timestamp]

\* policies after the replace-or-append and the sort
upserted(pols, policy_id, rules, priority, enabled, timestamp) ==
    LET existing_idx == existing_idx_from(pols, policy_id, 1)
        record == policy_record(pols, existing_idx, policy_id, rules, priority,
                                enabled, timestamp)
    IN  sort_by_priority(IF existing_idx # 0
                         THEN [pols EXCEPT ![existing_idx] = record]
                         ELSE Append(pols, record))

create_policy(policy_id, rules, priority, enabled, outcome) ==
    LET timestamp == clock + 1
        error == validate_policy_rules(rules)
        input == [policy_id |-> policy_id, rules |-> rules, priority |-> priority,
                  enabled |-> enabled]
    IN  /\ clock' = clock + 1
        /\ UNCHANGED <<agents, incidents, calls>>
        /\ IF error # ""
           THEN /\ UNCHANGED <<policies, audit_log>>
                /\ result' = [op |-> "create_policy", raised |-> FALSE, input |-> input,
                              store |-> "unused",
                              ret |-> [success |-> FALSE, message |-> error]]
           ELSE /\ policies' = save_json_file(policies,
                                    upserted(policies, policy_id, rules, priority,
                                             enabled, timestamp),
                                    outcome)
                /\ audit_log' = append_to_json_list(audit_log,
                                    AuditEntry(clock + 1, Absent, timestamp,
                                               "guardian-system", <<"policy_management">>,
                                               <<policy_id>>, Absent, TRUE, Absent,
                                               Reason("policy_management_completed", "", "")))
                /\ result' = [op |-> "create_policy", raised |-> FALSE, input |-> input,
                              store |-> outcome,
                              ret |-> [success |-> TRUE,
                                       message |-> IF existing_idx_from(policies, policy_id, 1) # 0
                                                   THEN "updated" ELSE "created"]]

-----------------------------------------------------------------------------
(* report_incident *)

valid_types ==
    {"policy_violation", "suspicious_activity", "unauthorized_access",
     "rate_limit_exceeded", "data_exfiltration", "configuration_error", "other"}

valid_severities == {"low", "medium", "high", "critical"}

coerced_type(incident_type) ==
    IF incident_type \notin valid_types THEN "other" ELSE incident_type

\* a faulty variant: the severity is stored as given
coerced_severity_unchecked(severity) == severity

coerced_severity(severity) ==
    IF severity \notin valid_severities THEN "medium" ELSE severity

\* a faulty variant: the reason and the time are recorded, the status is not
suspended_reason_only(ags, agent_id, timestamp, incident_id) ==
    [ags EXCEPT ![agent_id].suspended_at = Some(timestamp),
                ![agent_id].suspension_reason = Some(incident_id)]

\* a faulty variant: the suspension also takes the agent's trust away
suspended_demoted(ags, agent_id, timestamp, incident_id) ==
    [ags EXCEPT ![agent_id].status = Some("suspended"),
                ![agent_id].suspended_at = Some(timestamp),
                ![agent_id].suspension_reason = Some(incident_id),
                ![agent_id].trust_level = "low"]

\* the auto-suspension: three keys of one agent's dict are set in place
\* a faulty variant: an agent already suspended keeps its first suspension
suspended_keeps_first(ags, agent_id, timestamp, incident_id) ==
    IF ags[agent_id].status = Some("suspended")
    THEN ags
    ELSE [ags EXCEPT ![agent_id].status = Some("suspended"),
                     ![agent_id].suspended_at = Some(timestamp),
                     ![agent_id].suspension_reason = Some(incident_id)]

suspended(ags, agent_id, timestamp, incident_id) ==
    [ags EXCEPT ![agent_id].status = Some("suspended"),
                ![agent_id].suspended_at = Some(timestamp),
                ![agent_id].suspension_reason = Some(incident_id)]

\* "if severity == 'critical' and agent_id: ... if agent_id in agents"
suspends(ags, severity, agent_id) ==
    coerced_severity(severity) = "critical" /\ agent_id # "" /\ agent_id \in DOMAIN ags

report_incident(incident_type, severity, agent_id) ==
    LET timestamp == clock + 1
        incident_id == clock + 1
        incident == Incident(incident_id, timestamp, coerced_type(incident_type),
                             coerced_severity(severity),
                             IF agent_id = "" THEN Absent ELSE Some(agent_id),
                             Absent, Some("open"))
        agent_suspended == suspends(agents, severity, agent_id)
    IN  /\ clock' = clock + 1
        /\ UNCHANGED <<policies, calls>>
        /\ incidents' = append_to_json_list(incidents, incident)
        /\ agents' = IF agent_suspended
                     THEN suspended(agents, agent_id, timestamp, incident_id)
                     ELSE agents
        /\ audit_log' = append_to_json_list(audit_log,
                            AuditEntry(clock + 1, Absent, timestamp, "guardian-system",
                                       <<"incident_report">>, <<>>, Absent, TRUE, Absent,
                                       Reason("incident_logged", "", "")))
        /\ result' = [op |-> "report_incident", raised |-> FALSE,
                      input |-> [incident_type |-> incident_type, severity |-> severity,
                                 agent_id |-> agent_id],
                      ret |-> [incident_id |-> incident_id, success |-> TRUE,
                               agent_suspended |-> agent_suspended,
                               severity |-> coerced_severity(severity),
                               type |-> coerced_type(incident_type)]]

-----------------------------------------------------------------------------
(* Inputs of the calls *)

AgentIds == {"a1", "a2"}

PolicyIds == {"p1", "p2"}

Star == <<"*">>

\* "d*"
PD == <<"d", "*">>

\* "d.": to a glob a literal dot, to re.match any character
PDot == <<"d", ".">>

\* "[": re.compile raises "unterminated character set"
PBad == <<"[">>

\* "Dx" and "rx"
Targets == {<<"D", "x">>, <<"r", "x">>}

\* "t" (as "tool_call") and "q"
ActionTypes == {<<"t">>, <<"q">>}

Cond(tool_pattern, action_type, at_least, below) ==
    [tool_pattern |-> tool_pattern, action_type |-> action_type,
     trust_level_at_least |-> at_least, trust_level_below |-> below]

Rule(condition, action, message) ==
    [is_dict |-> TRUE, condition |-> condition, action |-> action, message |-> message]

\* a JSON value that is no object, as an element of the rules array
NotADict ==
    [is_dict |-> FALSE, condition |-> EmptyCondition, action |-> Absent,
     message |-> Absent]

DenyBelowAdmin == Rule(Cond(PD, <<>>, "", "admin"), Some("deny"), Some("m1"))

ApproveBelowHigh == Rule(Cond(<<>>, <<"t">>, "", "high"), Some("require_approval"), Some("m2"))

AllowAll == Rule(Cond(Star, <<>>, "low", ""), Some("allow"), Some("m3"))

DenyBelowMedium == Rule(Cond(<<>>, <<>>, "", "medium"), Some("deny"), Some("m4"))

\* both trust clauses in one rule
DenyAtLeastAndBelow == Rule(Cond(PD, <<>>, "high", "admin"), Some("deny"), Some("m5"))

DenyAtLeastHigh == Rule(Cond(<<>>, <<>>, "high", ""), Some("deny"), Some("m6"))

\* no "action" and no "message" key: rule.get supplies the defaults
DenyByDefault == Rule(Cond(<<"r", "*">>, <<>>, "", "high"), Absent, Absent)

\* a tool_pattern re.compile rejects
DenyBadPattern == Rule(Cond(PBad, <<>>, "", "admin"), Some("deny"), Some("m7"))

\* no trust clause at all
DenyPlain == Rule(Cond(PD, <<>>, "", ""), Some("deny"), Some("m8"))

\* an allow rule whose tool_pattern re.compile rejects
AllowBadPattern == Rule(Cond(PBad, <<>>, "low", ""), Some("allow"), Some("m9"))

\* trust_level_at_least in rules that do not deny
AllowAtLeastHigh == Rule(Cond(PD, <<>>, "high", ""), Some("allow"), Some("m11"))

ApproveAtLeastHigh ==
    Rule(Cond(<<>>, <<>>, "high", "medium"), Some("require_approval"), Some("m10"))

\* rule lists _validate_policy_rules rejects
InvalidRuleLists ==
    { <<>>,
      <<NotADict>>,
      <<Rule(EmptyCondition, Some("deny"), Some("m1"))>>,
      <<DenyBelowAdmin, Rule(Cond(PD, <<>>, "", ""), Some("explode"), Some("m1"))>> }

\* rule lists it accepts
ValidRuleLists ==
    { <<DenyBelowAdmin>>, <<AllowAll, ApproveBelowHigh>> }

Priorities == {1, 2}

PolicyInputs ==
    [policy_id : PolicyIds, rules : ValidRuleLists, priority : Priorities,
     enabled : {TRUE}]
    \cup [policy_id : {"p1"}, rules : InvalidRuleLists, priority : {1}, enabled : {TRUE}]
    \cup [policy_id : {"p2"}, rules : {<<DenyBelowAdmin>>}, priority : {2},
          enabled : {FALSE}]
    \cup [policy_id : {"p2"}, rules : {<<DenyByDefault>>}, priority : {1},
          enabled : {TRUE}]

TrustInputs == {"medium", "admin", "root"}

\* allowed_tools and denied_tools of a registration
ToolListInputs == { <<EmptyText, EmptyText>>, <<Json(<<Star>>), Json(<<PD>>)>> }

IncidentInputs ==
    [incident_type : {"policy_violation"}, severity : {"critical", "low"},
     agent_id : {"a1", ""}]
    \cup [incident_type : {"breach"}, severity : {"urgent"}, agent_id : {"a1", ""}]
    \cup [incident_type : {"breach"}, severity : {"critical"}, agent_id : {"a2"}]

-----------------------------------------------------------------------------
(* The calls, one at a time, from the empty store *)

ValidateAction ==
    \E target \in Targets, agent_id \in AgentIds :
        validate_action(<<"t">>, target, agent_id, EmptyText)

RegisterAgent ==
    \E agent_id \in AgentIds, trust_level \in TrustInputs, lists \in ToolListInputs :
        register_agent(agent_id, trust_level, lists[1], lists[2], "saved")

CreatePolicy ==
    \E in \in PolicyInputs :
        create_policy(in.policy_id, in.rules, in.priority, in.enabled, "saved")

ReportIncident ==
    \E in \in IncidentInputs :
        report_incident(in.incident_type, in.severity, in.agent_id)

Next ==
    /\ clock < MaxCalls
    /\ \/ ValidateAction
       \/ RegisterAgent
       \/ CreatePolicy
       \/ ReportIncident

Spec == Init /\ [][Next]_vars

-----------------------------------------------------------------------------
(* validate_action over the stores the calls can have written *)

\* a record register_agent writes
registered(trust_level, allowed_list, denied_list) ==
    agent_record([a \in {} |-> 0], "a1", trust_level, allowed_list, denied_list, 0)

StoredAllowedTools == { <<>>, <<Star>>, <<PD>>, <<PDot>>, <<PBad, Star>> }

StoredDeniedTools == { <<>>, <<PD>>, <<PBad, Star>> }

\* a1 as registered, and as suspended by a critical incident afterwards
StoredAgents ==
    LET active == { "a1" :> registered(t, al, dl) :
                        t \in valid_trust_levels, al \in StoredAllowedTools,
                        dl \in StoredDeniedTools }
    IN  active \cup { suspended(ags, "a1", 0, 0) : ags \in active }

StoredRuleLists ==
    { <<DenyBelowAdmin>>, <<ApproveBelowHigh>>, <<AllowAll, DenyBelowMedium>>,
      <<DenyAtLeastAndBelow>>, <<DenyAtLeastHigh>>, <<DenyByDefault>>,
      <<DenyBadPattern>>, <<DenyPlain, ApproveBelowHigh>>,
      <<AllowBadPattern, DenyBelowMedium>>,
      <<AllowAtLeastHigh, ApproveAtLeastHigh>> }

\* a record create_policy writes
stored_policy(policy_id, rules, priority, enabled) ==
    policy_record(<<>>, 0, policy_id, rules, priority, enabled, 0)

\* no policy, p1 alone, or p1 before p2 (higher priority, or equal and older)
StoredPolicies ==
    {<<>>}
    \cup { <<stored_policy("p1", r, 2, e)>> : r \in StoredRuleLists, e \in BOOLEAN }
    \cup { <<stored_policy("p1", r, 2, e), stored_policy("p2", <<DenyBelowMedium>>, q, TRUE)>> :
               r \in StoredRuleLists, e \in BOOLEAN, q \in Priorities }

\* calls explored from each stored state
MaxStoredCalls == 1

InitStored ==
    /\ agents \in StoredAgents
    /\ policies \in StoredPolicies
    /\ audit_log = <<>>
    /\ incidents = <<>>
    /\ clock = 0
    /\ result = NoResult
    /\ calls = <<>>

ValidateStored ==
    \E action_type \in ActionTypes, target \in Targets, agent_id \in AgentIds :
        validate_action(action_type, target, agent_id, EmptyText)

NextStored == clock < MaxStoredCalls /\ ValidateStored

SpecStored == InitStored /\ [][NextStored]_vars

-----------------------------------------------------------------------------
(* The calls with texts json.loads rejects and with store writes that fail *)

\* calls explored with malformed texts and failing writes
MaxRawCalls == 3

\* parameters: none, {"n": "1"}, and a text that does not parse
ParameterTexts == { EmptyText, Json(<<<<"n", "1">>>>), Malformed }

\* allowed_tools and denied_tools, one or both of them not parsing
RawToolLists ==
    { <<Malformed, Json(<<PD>>)>>, <<Json(<<PD>>), Malformed>>,
      <<Json(<<PD>>), Json(<<PD>>)>> }

ValidateRaw ==
    \E target \in Targets, agent_id \in AgentIds, parameters \in ParameterTexts :
        validate_action(<<"t">>, target, agent_id, parameters)

RegisterRaw ==
    \E lists \in RawToolLists, outcome \in SaveOutcomes :
        register_agent("a1", "medium", lists[1], lists[2], outcome)

CreatePolicyRaw ==
    \E outcome \in SaveOutcomes :
        create_policy("p1", <<DenyBelowAdmin>>, 1, TRUE, outcome)

NextRaw ==
    /\ clock < MaxRawCalls
    /\ \/ ValidateRaw
       \/ RegisterRaw
       \/ CreatePolicyRaw

SpecRaw == Init /\ [][NextRaw]_vars

-----------------------------------------------------------------------------
(* The matcher alone, over every pattern and value of a bounded length *)

MaxPatternLen == 2

MaxValueLen == 3

\* a letter, a second letter, the wildcard, and two characters re reads as
\* syntax: '.' compiles, '[' alone does not
PatternChars == {"d", "x", "*", ".", "["}

\* a letter in both cases, a second letter, the line feed
ValueChars == {"d", "D", "x", NL}

Strings(chars, n) == UNION { [1..k -> chars] : k \in 0..n }

\* the arguments of the call to come
MatchInput(pattern, value) ==
    [op |-> "match_input", pattern |-> pattern, value |-> value,
     raised |-> FALSE, ret |-> FALSE]

InitMatch ==
    /\ agents = <<>>
    /\ policies = <<>>
    /\ audit_log = <<>>
    /\ incidents = <<>>
    /\ clock = 0
    /\ calls = <<>>
    /\ \E pattern \in Strings(PatternChars, MaxPatternLen),
          value \in Strings(ValueChars, MaxValueLen) :
           result = MatchInput(pattern, value)

\* one call _match_pattern(pattern, value), its outcome kept in result
call_match_pattern(pattern, value) ==
    /\ result' = [op |-> "match_pattern", pattern |-> pattern, value |-> value,
                  raised |-> match_raises(pattern),
                  ret |-> IF match_raises(pattern) THEN FALSE
                          ELSE match_pattern(pattern, value)]
    /\ clock' = clock + 1
    /\ UNCHANGED <<agents, policies, audit_log, incidents, calls>>

MatchPattern ==
    /\ result.op = "match_input"
    /\ call_match_pattern(result.pattern, result.value)

NextMatch == MatchPattern

SpecMatch == InitMatch /\ [][NextMatch]_vars

-----------------------------------------------------------------------------
(* Calls that overlap: every load_json_file and every save_json_file of a   *)
(* call is a step of its own, and between two steps of one call any other  *)
(* call may take steps.  A call keeps what it has loaded in calls[p].      *)

\* the calls that can be in flight together
Procs == {1, 2}

\* calls begun in one behaviour
MaxConcurrentCalls == 3

\* the calls made: validate_action("t", "Dx", agent_id),
\* report_incident(type, "critical", ..., agent_id = "a1"),
\* register_agent("a2", ..., "medium"), create_policy("p1", ...)
ConcurrentInputs ==
    { [op |-> "validate_action", agent_id |-> "a1"],
      [op |-> "validate_action", agent_id |-> "a2"],
      [op |-> "report_incident", agent_id |-> "a1"],
      [op |-> "register_agent", agent_id |-> "a2"],
      [op |-> "create_policy", agent_id |-> ""] }

\* no call in flight; began_alone records whether no other call was in
\* flight when the call began
IdleCall ==
    [op |-> "none", agent_id |-> "", id |-> 0, pc |-> "idle", began_alone |-> FALSE,
     agents |-> [a \in {} |-> 0], policies |-> <<>>, data |-> <<>>]

\* the first store access of each tool
first_step(op) ==
    CASE op = "validate_action" -> "load_policies"
      [] op = "register_agent" -> "load_agents"
      [] op = "create_policy" -> "load_policies"
      [] OTHER -> "load_incidents"

InitConcurrent ==
    /\ agents = ("a1" :> registered("medium", <<>>, <<>>))
    /\ policies = <<>>
    /\ audit_log = <<>>
    /\ incidents = <<>>
    /\ clock = 0
    /\ result = NoResult
    /\ calls = [p \in Procs |-> IdleCall]

\* the result dict of a validate_action call, from what the call has loaded
call_result(c) ==
    validate_result(c.id, <<"t">>, <<"D", "x">>, c.agent_id, c.agents, c.policies)

\* a faulty variant: the collection is loaded again right before the write
agents_written_reread(c) ==
    CASE c.op = "validate_action" -> with_auto_registered(agents, c.agent_id, c.id)
      [] c.op = "register_agent" ->
            put_agent(agents, c.agent_id,
                      agent_record(agents, c.agent_id, "medium", <<>>, <<>>, c.id))
      [] OTHER -> suspended(agents, c.agent_id, c.id, c.id)

\* the dict a call hands to save_json_file("agents.json", agents): the one it
\* loaded, with its own change
agents_written(c) ==
    CASE c.op = "validate_action" -> c.agents
      [] c.op = "register_agent" ->
            put_agent(c.agents, c.agent_id,
                      agent_record(c.agents, c.agent_id, "medium", <<>>, <<>>, c.id))
      [] OTHER -> suspended(c.agents, c.agent_id, c.id, c.id)

\* the audit entry of a call
audit_entry_of(c) ==
    CASE c.op = "validate_action" ->
            AuditEntry(c.id, Some(c.id), c.id, c.agent_id, <<"t">>, <<"D", "x">>,
                       Some(<<>>), call_result(c).allowed,
                       Some(Get(call_result(c).require_approval, FALSE)),
                       call_result(c).reason)
      [] c.op = "register_agent" ->
            AuditEntry(c.id, Absent, c.id, "guardian-system", <<"agent_registration">>,
                       <<c.agent_id>>, Absent, TRUE, Absent,
                       Reason("registration_completed", "", ""))
      [] c.op = "create_policy" ->
            AuditEntry(c.id, Absent, c.id, "guardian-system", <<"policy_management">>,
                       <<"p1">>, Absent, TRUE, Absent,
                       Reason("policy_management_completed", "", ""))
      [] OTHER ->
            AuditEntry(c.id, Absent, c.id, "guardian-system", <<"incident_report">>,
                       <<>>, Absent, TRUE, Absent, Reason("incident_logged", "", ""))

\* the incident a call appends
incident_of(c) ==
    IF c.op = "validate_action"
    THEN Incident(c.id, c.id, "policy_violation", "medium", Some(c.agent_id),
                  Some(c.id), Absent)
    ELSE Incident(c.id, c.id, "other", "critical", Some(c.agent_id), Absent,
                  Some("open"))

\* what the call returns
returned(c) ==
    [op |-> c.op, raised |-> FALSE, agent_id |-> c.agent_id, id |-> c.id,
     began_alone |-> c.began_alone,
     ret |-> IF c.op = "validate_action" THEN call_result(c)
             ELSE [success |-> TRUE]]

Begin(p) ==
    /\ calls[p].pc = "idle"
    /\ clock < MaxConcurrentCalls
    /\ \E input \in ConcurrentInputs :
          calls' = [calls EXCEPT ![p] =
                       [IdleCall EXCEPT !.op = input.op,
                                        !.agent_id = input.agent_id,
                                        !.id = clock + 1,
                                        !.pc = first_step(input.op),
                                        !.began_alone =
                                            \A q \in Procs : calls[q].pc = "idle"]]
    /\ clock' = clock + 1
    /\ UNCHANGED <<agents, policies, audit_log, incidents, result>>

\* _load_policies() / load_json_file("policies.json")
LoadPolicies(p) ==
    /\ calls[p].pc = "load_policies"
    /\ calls' = [calls EXCEPT ![p].policies = policies,
                              ![p].pc = IF calls[p].op = "validate_action"
                                        THEN "load_agents"
                                        ELSE "save_policies"]
    /\ UNCHANGED <<agents, policies, audit_log, incidents, clock, result>>

\* save_json_file("policies.json", policies) of create_policy
SavePolicies(p) ==
    /\ calls[p].pc = "save_policies"
    /\ policies' = upserted(calls[p].policies, "p1", <<DenyBelowAdmin>>, 1, TRUE,
                            calls[p].id)
    /\ calls' = [calls EXCEPT ![p].pc = "load_audit_log"]
    /\ UNCHANGED <<agents, audit_log, incidents, clock, result>>

\* _load_agents() / load_json_file("agents.json"); validate_action adds the
\* unknown agent to the dict it has loaded
LoadAgents(p) ==
    LET c == calls[p]
        known == c.agent_id \in DOMAIN agents
    IN  /\ c.pc = "load_agents"
        /\ calls' = [calls EXCEPT
                ![p].agents = IF c.op = "validate_action"
                              THEN with_auto_registered(agents, c.agent_id, c.id)
                              ELSE agents,
                ![p].pc = CASE c.op = "validate_action" ->
                                   IF known THEN "load_audit_log" ELSE "save_agents"
                            [] c.op = "register_agent" -> "save_agents"
                            [] OTHER ->
                                   IF known THEN "save_agents" ELSE "load_audit_log"]
        /\ UNCHANGED <<agents, policies, audit_log, incidents, clock, result>>

\* save_json_file("agents.json", agents)
SaveAgents(p) ==
    /\ calls[p].pc = "save_agents"
    /\ agents' = agents_written(calls[p])
    /\ calls' = [calls EXCEPT ![p].pc = "load_audit_log"]
    /\ UNCHANGED <<policies, audit_log, incidents, clock, result>>

\* append_to_json_list("audit_log.json", ...): its load_json_file
LoadAuditLog(p) ==
    /\ calls[p].pc = "load_audit_log"
    /\ calls' = [calls EXCEPT ![p].data = audit_log, ![p].pc = "save_audit_log"]
    /\ UNCHANGED <<agents, policies, audit_log, incidents, clock, result>>

\* append_to_json_list("audit_log.json", ...): its save_json_file; the call
\* returns after it, unless it is a validate_action that denied
SaveAuditLog(p) ==
    LET c == calls[p]
    IN  /\ c.pc = "save_audit_log"
        /\ audit_log' = append_to_json_list(c.data, audit_entry_of(c))
        /\ IF c.op = "validate_action" /\ incident_due(call_result(c))
           THEN /\ calls' = [calls EXCEPT ![p].pc = "load_incidents"]
                /\ UNCHANGED result
           ELSE /\ calls' = [calls EXCEPT ![p] = IdleCall]
                /\ result' = returned(c)
        /\ UNCHANGED <<agents, policies, incidents, clock>>

\* append_to_json_list("incidents.json", ...): its load_json_file
LoadIncidents(p) ==
    /\ calls[p].pc = "load_incidents"
    /\ calls' = [calls EXCEPT ![p].data = incidents, ![p].pc = "save_incidents"]
    /\ UNCHANGED <<agents, policies, audit_log, incidents, clock, result>>

\* append_to_json_list("incidents.json", ...): its save_json_file;
\* report_incident goes on to the suspension, validate_action returns
SaveIncidents(p) ==
    LET c == calls[p]
    IN  /\ c.pc = "save_incidents"
        /\ incidents' = append_to_json_list(c.data, incident_of(c))
        /\ IF c.op = "report_incident"
           THEN /\ calls' = [calls EXCEPT ![p].pc = "load_agents"]
                /\ UNCHANGED result
           ELSE /\ calls' = [calls EXCEPT ![p] = IdleCall]
                /\ result' = returned(c)
        /\ UNCHANGED <<agents, policies, audit_log, clock>>

NextConcurrent ==
    \E p \in Procs :
        \/ Begin(p)
        \/ LoadPolicies(p)
        \/ SavePolicies(p)
        \/ LoadAgents(p)
        \/ SaveAgents(p)
        \/ LoadAuditLog(p)
        \/ SaveAuditLog(p)
        \/ LoadIncidents(p)
        \/ SaveIncidents(p)

SpecConcurrent == InitConcurrent /\ [][NextConcurrent]_vars

-----------------------------------------------------------------------------
(* The contract the claims are stated against *)

\* The pattern matcher as specified: '*' stands for any run of characters,
\* every other character stands for itself, case is ignored, the whole
\* value is matched.
RECURSIVE GlobMatchFrom(_, _, _, _)
GlobMatchFrom(pattern, i, value, j) ==
    IF i > Len(pattern)
    THEN j > Len(value)
    ELSE IF pattern[i] = "*"
         THEN \/ GlobMatchFrom(pattern, i + 1, value, j)
              \/ j <= Len(value) /\ GlobMatchFrom(pattern, i, value, j + 1)
         ELSE /\ j <= Len(value)
              /\ Lower(pattern[i]) = Lower(value[j])
              /\ GlobMatchFrom(pattern, i + 1, value, j + 1)

GlobMatch(pattern, value) == GlobMatchFrom(pattern, 1, value, 1)

AnyGlobMatch(patterns, value) ==
    \E i \in 1..Len(patterns) : GlobMatch(patterns[i], value)

\* the step is a validate_action call
ValidateStep == result'.op = "validate_action"

\* the agent the call decides about: the stored record, or the one it creates
Subject == 
    IF result'.agent_id \in DOMAIN agents
    THEN agents[result'.agent_id]
    ELSE auto_registered_agent(clock + 1)

SubjectSuspended == Subject.status = Some("suspended")

SubjectDenied == Get(Subject.denied_tools, <<>>)

SubjectAllowed == Get(Subject.allowed_tools, <<>>)

\* the call returned this denial
Denies(kind) ==
    /\ ~result'.raised
    /\ ~result'.ret.allowed
    /\ result'.ret.reason.kind = kind

\* the same of the last call, in the state it left
ValidateDone == result.op = "validate_action"

Caller == agents[result.agent_id]

-----------------------------------------------------------------------------
(* C1: a validate_action call for an agent stored as suspended returns
   allowed = false with the suspension reason naming the agent, whatever
   the action type, target, trust level, tool lists and policies. *)
C1_SuspendedDenied ==
    [][ValidateStep /\ SubjectSuspended
        => /\ Denies("suspended")
           /\ result'.ret.reason.a = result'.agent_id]_vars

\* an admin with a matching allow list, suspended, is denied under stored policies
C1_Witness ==
    /\ ValidateDone
    /\ Caller.status = Some("suspended")
    /\ Caller.trust_level = "admin"
    /\ Caller.allowed_tools = Some(<<Star>>)
    /\ policies # <<>>
    /\ ~result.ret.allowed
    /\ result.ret.reason = Reason("suspended", result.agent_id, "")

(* C2: for a non-suspended agent, a denied_tools pattern matching the target
   makes validate_action return allowed = false with the explicit-denial
   reason, whatever allowed_tools, trust level and policies are. *)
C2_DenyListPrecedence ==
    [][ValidateStep /\ ~SubjectSuspended /\ AnyGlobMatch(SubjectDenied, result'.target)
        => Denies("explicitly_denied")]_vars

\* the allow-list step is reached and its condition to deny holds
AllowListMisses ==
    /\ SubjectAllowed # <<>>
    /\ SubjectAllowed # <<Star>>
    /\ ~AnyGlobMatch(SubjectAllowed, result'.target)

(* C3: when the deny list does not decide, the allow-list step denies with
   "not in allowed list" exactly when allowed_tools is non-empty, is not
   ["*"], and no pattern of it matches the target. *)
C3_AllowListDenial ==
    [][ValidateStep /\ ~SubjectSuspended /\ ~AnyGlobMatch(SubjectDenied, result'.target)
        => (Denies("not_in_allowed_list") <=> AllowListMisses)]_vars

\* a rule triggers a deny or a require_approval, as specified
Triggers(rule, action_type, target, trust_level) ==
    LET c == rule.condition
        action == Get(rule.action, "deny")
    IN  /\ c.tool_pattern = <<>> \/ GlobMatch(c.tool_pattern, target)
        /\ c.action_type = <<>> \/ GlobMatch(c.action_type, action_type)
        /\ \/ /\ c.trust_level_at_least # ""
              /\ trust_score(trust_level) < trust_score(c.trust_level_at_least)
              /\ action = "deny"
           \/ /\ c.trust_level_below # ""
              /\ trust_score(trust_level) < trust_score(c.trust_level_below)
              /\ action \in {"deny", "require_approval"}

NoRuleTriggers ==
    \A i \in 1..Len(policies) :
        policies[i].enabled =>
            \A j \in 1..Len(policies[i].rules) :
                ~Triggers(policies[i].rules[j], result'.action_type, result'.target,
                          Subject.trust_level)

(* C4: for a non-suspended agent that its tool lists do not deny, when no
   rule of an enabled policy triggers a deny or a require_approval,
   validate_action returns allowed = true by the default policy. *)
C4_DefaultAllow ==
    [][(/\ ValidateStep
        /\ ~SubjectSuspended
        /\ ~AnyGlobMatch(SubjectDenied, result'.target)
        /\ ~AllowListMisses
        /\ NoRuleTriggers)
        => (/\ ~result'.raised
            /\ result'.ret.allowed
            /\ result'.ret.reason.kind = "default_policy")]_vars

\* what an append leaves of the log it found
Kept(log) == IF Len(log) < max_items THEN log ELSE Tail(log)

\* log' is log with exactly one entry appended
OneAppended(log, new) ==
    /\ new # <<>>
    /\ SubSeq(new, 1, Len(new) - 1) = Kept(log)

Last(log) == log[Len(log)]

(* C5: validate_action for an agent id that is not stored stores a record
   for it with trust_level low, not suspended, auto_registered, whatever the
   call then does, and changes no other agent; the decision is the one a
   registered low-trust agent without tool lists gets from the policies. *)
C5_AutoRegistration ==
    [][ValidateStep /\ result'.agent_id \notin DOMAIN agents
        => LET id == result'.agent_id
               ref == evaluate_policies(result'.action_type, result'.target, id,
                                        id :> registered("low", <<>>, <<>>), policies)
           IN  /\ DOMAIN agents' = DOMAIN agents \cup {id}
               /\ \A a \in DOMAIN agents : agents'[a] = agents[a]
               /\ agents'[id].trust_level = "low"
               /\ agents'[id].status # Some("suspended")
               /\ agents'[id].auto_registered
               /\ agents'[id].registered_at = clock'
               /\ result'.raised = ref.raised
               /\ ~ref.raised =>
                    /\ result'.ret.allowed = ref.allowed
                    /\ Get(result'.ret.require_approval, FALSE)
                         = Get(ref.require_approval, FALSE)
                    /\ result'.ret.reason = ref.reason]_vars

\* an unknown agent was denied by a rule, and is stored all the same
C5_Witness ==
    /\ ValidateDone
    /\ result.agent_id = "a2"
    /\ Caller.auto_registered
    /\ Caller.registered_at = clock
    /\ ~result.raised
    /\ ~result.ret.allowed
    /\ result.ret.reason.kind = "message"

(* C6: every validate_action call appends exactly one audit entry, which
   carries the call's action_id and agent_id and the allowed,
   require_approval and reason values of the result. *)
C6_AuditEveryCall ==
    [][ValidateStep
        => /\ OneAppended(audit_log, audit_log')
           /\ Last(audit_log').action_id = Some(result'.ret.action_id)
           /\ Last(audit_log').agent_id = result'.agent_id
           /\ Last(audit_log').allowed = result'.ret.allowed
           /\ Get(Last(audit_log').require_approval, FALSE)
                = Get(result'.ret.require_approval, FALSE)
           /\ Last(audit_log').reason = result'.ret.reason]_vars

(* C7: a validate_action call that returns allowed = false (a denial, a
   require-approval, a suspended agent) appends exactly one incident, of type
   policy_violation and severity medium, for the calling agent and with the
   action_id of the call's audit entry; one that returns allowed = true
   leaves the incidents as they were. *)
C7_IncidentIffDenied ==
    [][ValidateStep /\ ~result'.raised
        => IF ~result'.ret.allowed
           THEN /\ OneAppended(incidents, incidents')
                /\ Last(incidents').type = "policy_violation"
                /\ Last(incidents').severity = "medium"
                /\ Last(incidents').agent_id = Some(result'.agent_id)
                /\ Last(incidents').action_id = Some(result'.ret.action_id)
                /\ Last(incidents').action_id = Last(audit_log').action_id
           ELSE incidents' = incidents]_vars

\* a require-approval outcome left its incident
C7_Witness ==
    /\ ValidateDone
    /\ ~result.ret.allowed
    /\ result.ret.require_approval = Some(TRUE)
    /\ incidents # <<>>
    /\ Last(incidents).action_id = Some(result.ret.action_id)
    /\ Last(incidents).type = "policy_violation"

(* C8: report_incident with severity critical for a stored agent sets its
   status to suspended and returns agent_suspended = true; the status stays
   suspended through every call that is not a register_agent for that agent,
   and every validate_action for a suspended agent is denied with the
   suspension reason. *)
C8_CriticalSuspends ==
    [][/\ (/\ result'.op = "report_incident"
           /\ result'.input.severity = "critical"
           /\ result'.input.agent_id \in DOMAIN agents)
          => /\ agents'[result'.input.agent_id].status = Some("suspended")
             /\ result'.ret.agent_suspended
       /\ \A a \in DOMAIN agents :
            (/\ agents[a].status = Some("suspended")
             /\ ~(result'.op = "register_agent" /\ result'.input.agent_id = a))
            => (a \in DOMAIN agents' /\ agents'[a].status = Some("suspended"))
       /\ (ValidateStep /\ SubjectSuspended)
          => (Denies("suspended") /\ result'.ret.reason.a = result'.agent_id)]_vars

\* an agent suspended by a critical incident is denied afterwards
C8_Witness ==
    /\ ValidateDone
    /\ Caller.suspension_reason # Absent
    /\ Caller.status = Some("suspended")
    /\ ~result.ret.allowed
    /\ result.ret.reason.kind = "suspended"
    /\ \E k \in 1..Len(incidents) :
         /\ incidents[k].severity = "critical"
         /\ incidents[k].agent_id = Some(result.agent_id)
         /\ Some(incidents[k].incident_id) = Caller.suspension_reason

\* the policies up to, and without, rule j of policy i
Before(i, j) ==
    SubSeq(policies, 1, i - 1)
    \o <<[policies[i] EXCEPT !.rules = SubSeq(@, 1, j - 1)]>>

\* the policies without rule j of policy i
Without(i, j) ==
    [policies EXCEPT ![i].rules = SubSeq(@, 1, j - 1) \o SubSeq(@, j + 1, Len(@))]

\* the evaluation of the call comes to rule j of policy i: the agent is not
\* suspended, its lists let the target pass and no earlier rule decides
Reaches(i, j) ==
    /\ ValidateStep
    /\ ~SubjectSuspended
    /\ policies[i].enabled
    /\ LET id == result'.agent_id
       IN  evaluate_policies(result'.action_type, result'.target, id,
                             id :> Subject, Before(i, j)) = default_allow

\* the matcher reports that the patterns of the rule, if any, match the call
PatternsMatch(rule) ==
    LET c == rule.condition
    IN  /\ c.tool_pattern # <<>> =>
             ~match_raises(c.tool_pattern) /\ match_pattern(c.tool_pattern, result'.target)
        /\ c.action_type # <<>> =>
             ~match_raises(c.action_type)
             /\ match_pattern(c.action_type, result'.action_type)

\* the result is the denial that carries the rule's message
DeniesWithMessage(rule, policy) ==
    IF rule.message = Absent
    THEN Denies("denied_by_policy") /\ result'.ret.reason.a = policy.id
    ELSE Denies("message") /\ result'.ret.reason.a = rule.message[1]

\* a deny rule with a trust_level_below naming one of the four levels
DenyBelowRule(rule) ==
    /\ Get(rule.action, "deny") = "deny"
    /\ rule.condition.trust_level_below \in valid_trust_levels

\* the rule's trust_level_at_least clause, if any, is met by the agent
AtLeastMet(rule) ==
    \/ rule.condition.trust_level_at_least = ""
    \/ trust_score(Subject.trust_level)
         >= trust_score(rule.condition.trust_level_at_least)

\* the call returns what it would return without rule j of policy i
AsWithout(i, j) ==
    result'.ret = validate_result(result'.ret.action_id, result'.action_type,
                                  result'.target, result'.agent_id, agents',
                                  Without(i, j))

(* C9 as stated: a matching deny rule with trust_level_below = L denies with
   the rule's message exactly when the agent's trust score is strictly below
   the score of L, and otherwise decides nothing. *)
C9_BelowDeniesWithMessage ==
    [][\A i \in 1..Len(policies) : \A j \in 1..Len(policies[i].rules) :
         LET rule == policies[i].rules[j]
         IN  (Reaches(i, j) /\ DenyBelowRule(rule) /\ PatternsMatch(rule))
             => IF trust_score(Subject.trust_level)
                     < trust_score(rule.condition.trust_level_below)
                THEN DeniesWithMessage(rule, policies[i])
                ELSE AsWithout(i, j)]_vars

(* C9 as amended: the same for a rule whose trust_level_at_least clause, if
   it has one, names a level the agent's trust reaches. *)
C9_BelowDeniesUnlessAtLeast ==
    [][\A i \in 1..Len(policies) : \A j \in 1..Len(policies[i].rules) :
         LET rule == policies[i].rules[j]
         IN  (Reaches(i, j) /\ DenyBelowRule(rule) /\ PatternsMatch(rule)
              /\ AtLeastMet(rule))
             => IF trust_score(Subject.trust_level)
                     < trust_score(rule.condition.trust_level_below)
                THEN DeniesWithMessage(rule, policies[i])
                ELSE AsWithout(i, j)]_vars

\* a high-trust agent is denied by a rule with trust_level_below admin
C9_Witness ==
    /\ ValidateDone
    /\ Caller.trust_level = "high"
    /\ Caller.status = Some("active")
    /\ policies # <<>>
    /\ policies[1].enabled
    /\ policies[1].rules[1] = DenyBelowAdmin
    /\ ~result.raised
    /\ ~result.ret.allowed
    /\ result.ret.reason = Reason("message", "m1", "")

\* a rule list the validation has to reject
Rejectable(rules) ==
    \/ rules = <<>>
    \/ \E i \in 1..Len(rules) :
         \/ ~rules[i].is_dict
         \/ rules[i].condition = EmptyCondition
         \/ /\ rules[i].action # Absent
            /\ rules[i].action[1] \notin {"allow", "deny", "require_approval"}

(* C10: create_policy with no rule, with a rule that is no object, with a
   rule whose condition is empty or missing, or with a rule whose action is
   not recognised returns success = false and changes neither the stored
   policies nor the audit log. *)
C10_InvalidPolicyRejected ==
    [][result'.op = "create_policy" /\ Rejectable(result'.input.rules)
        => /\ ~result'.ret.success
           /\ policies' = policies
           /\ audit_log' = audit_log
           /\ agents' = agents
           /\ incidents' = incidents]_vars

\* a stored policy survives a rejected call for its id
C10_Witness ==
    /\ result.op = "create_policy"
    /\ ~result.ret.success
    /\ Len(result.input.rules) = 2
    /\ \E i \in 1..Len(policies) : policies[i].id = result.input.policy_id

\* the step is a register_agent call
RegisterStep == result'.op = "register_agent"

(* C11: register_agent with a trust_level outside low, medium, high, admin
   returns success = false and changes nothing: the agents (a stored record
   of that id included) and the audit log stay as they were. *)
C11_InvalidTrustRejected ==
    [][(RegisterStep
        /\ result'.input.trust_level \notin {"low", "medium", "high", "admin"})
        => (/\ ~result'.ret.success
            /\ agents' = agents
            /\ audit_log' = audit_log
            /\ policies' = policies
            /\ incidents' = incidents)]_vars

\* a stored record survives a rejected registration for its id
C11_Witness ==
    /\ result.op = "register_agent"
    /\ result.input.trust_level = "root"
    /\ ~result.ret.success
    /\ result.input.agent_id \in DOMAIN agents
    /\ agents[result.input.agent_id].trust_level = "admin"
    /\ audit_log # <<>>
    /\ Last(audit_log).timestamp < clock

(* C12: a successful register_agent for a stored id (registered before, or
   created by validate_action's auto-registration) keeps its registered_at
   and sets updated_at to the time of the call, later than the one before;
   for a new id both are the time of the call; no other call changes the
   registered_at of a stored agent. *)
C12_RegisteredAtPreserved ==
    [][/\ \A a \in DOMAIN agents :
            /\ a \in DOMAIN agents'
            /\ agents'[a].registered_at = agents[a].registered_at
            /\ agents[a].registered_at <= clock
       /\ (RegisterStep /\ result'.ret.success)
          => LET id == result'.input.agent_id
             IN  /\ agents'[id].updated_at = Some(clock')
                 /\ id \notin DOMAIN agents => agents'[id].registered_at = clock'
                 /\ (id \in DOMAIN agents /\ agents[id].updated_at # Absent)
                      => agents[id].updated_at[1] < agents'[id].updated_at[1]
                 /\ (/\ result.op = "register_agent"
                     /\ result.ret.success
                     /\ result.input = result'.input)
                      => agents' = [agents EXCEPT ![id].updated_at = Some(clock')]
       /\ (ValidateStep /\ result'.agent_id \notin DOMAIN agents)
          => agents'[result'.agent_id].registered_at = clock']_vars

\* an auto-registered agent, registered afterwards, keeps the time of its
\* first validate_action call
C12_Witness ==
    /\ result.op = "register_agent"
    /\ result.ret.success
    /\ result.ret.is_update
    /\ LET me == agents[result.input.agent_id]
       IN  /\ ~me.auto_registered
           /\ me.updated_at = Some(clock)
           /\ me.registered_at < clock
           /\ \E k \in 1..Len(audit_log) :
                /\ audit_log[k].action_id # Absent
                /\ audit_log[k].agent_id = result.input.agent_id
                /\ audit_log[k].timestamp = me.registered_at

\* the validate_action entries of a log carry distinct action_ids and
\* timestamps that never decrease along the log
ValidateEntriesOrdered(log) ==
    \A i, j \in 1..Len(log) :
        (i < j /\ log[i].action_id # Absent /\ log[j].action_id # Absent)
        => /\ log[i].action_id # log[j].action_id
           /\ log[i].timestamp <= log[j].timestamp

(* C13: every validate_action call leaves its own audit entry, last in the
   log and carrying the action_id of the call; the validate_action entries
   of the log have pairwise distinct action_ids and stand in call order with
   non-decreasing timestamps. *)
C13_DistinctOrderedEntries ==
    [][/\ ValidateStep
          => /\ OneAppended(audit_log, audit_log')
             /\ Last(audit_log').type = result'.action_type
             /\ Last(audit_log').action_id = Some(clock')
             /\ Last(audit_log').timestamp = clock'
       /\ ValidateEntriesOrdered(audit_log')]_vars

(* C14: every result validate_action returns has the five fields action_id,
   allowed, require_approval, reason and warnings (the model's result always
   has the other four; require_approval is the one a path can leave out). *)
C14_FiveFields ==
    [][(ValidateStep /\ ~result'.raised)
        => result'.ret.require_approval # Absent]_vars

(* C15: report_incident succeeds for every incident_type and severity and
   appends exactly one incident with status open, whose type is one of the
   seven types (other for an unrecognised one) and whose severity is one of
   low, medium, high, critical (medium for an unrecognised one); a call with
   an unrecognised severity suspends no agent. *)
C15_IncidentCoerced ==
    [][result'.op = "report_incident"
        => LET in == result'.input
               types == {"policy_violation", "suspicious_activity",
                         "unauthorized_access", "rate_limit_exceeded",
                         "data_exfiltration", "configuration_error", "other"}
               severities == {"low", "medium", "high", "critical"}
           IN  /\ result'.ret.success
               /\ OneAppended(incidents, incidents')
               /\ Last(incidents').status = Some("open")
               /\ Last(incidents').type = IF in.incident_type \in types
                                          THEN in.incident_type ELSE "other"
               /\ Last(incidents').severity = IF in.severity \in severities
                                              THEN in.severity ELSE "medium"
               /\ in.severity \notin severities
                    => (agents' = agents /\ ~result'.ret.agent_suspended)]_vars

\* an unrecognised type and severity reported for a stored agent
C15_Witness ==
    /\ result.op = "report_incident"
    /\ result.input.incident_type = "breach"
    /\ result.input.severity = "urgent"
    /\ result.input.agent_id \in DOMAIN agents
    /\ agents[result.input.agent_id].status # Some("suspended")
    /\ Last(incidents).type = "other"
    /\ Last(incidents).severity = "medium"
    /\ Last(incidents).agent_id = Some(result.input.agent_id)

\* new is log after one append: a full log has lost exactly its oldest entry,
\* any other log has lost nothing; the entries kept are in their order and
\* the entry of this call is last
FifoAppend(log, new) ==
    /\ Len(new) <= max_items
    /\ new # <<>>
    /\ Last(new).timestamp = clock'
    /\ IF Len(log) >= max_items
       THEN /\ Len(new) = Len(log)
            /\ \A k \in 1..(Len(log) - 1) : new[k] = log[k + 1]
       ELSE /\ Len(new) = Len(log) + 1
            /\ \A k \in 1..Len(log) : new[k] = log[k]

\* the call of the step appends to the audit log: a validate_action that
\* returns, a successful registration or policy write, an incident report
AuditAppended ==
    \/ ValidateStep /\ ~result'.raised
    \/ result'.op \in {"register_agent", "create_policy"} /\ result'.ret.success
    \/ result'.op = "report_incident"

\* the call of the step appends to the incidents
IncidentAppended ==
    \/ ValidateStep /\ ~result'.raised /\ ~result'.ret.allowed
    \/ result'.op = "report_incident"

(* C16: the audit log and the incident list never hold more than max_items
   entries; an append to a full log drops exactly its oldest entry, an
   append to any other log removes nothing, the entries kept stay in their
   order with the new entry last; a call that does not append leaves the
   log as it was. *)
C16_BoundedFifo ==
    [][/\ Len(audit_log') <= max_items
       /\ Len(incidents') <= max_items
       /\ IF AuditAppended
          THEN FifoAppend(audit_log, audit_log')
          ELSE audit_log' = audit_log
       /\ IF IncidentAppended
          THEN FifoAppend(incidents, incidents')
          ELSE incidents' = incidents]_vars

\* the full audit log has dropped its oldest entry for the newest
C16_Witness ==
    /\ Len(audit_log) = max_items
    /\ audit_log[1].entry_id > 1
    /\ Last(audit_log).entry_id = clock
    /\ \A k \in 1..(Len(audit_log) - 1) :
         audit_log[k].entry_id < audit_log[k + 1].entry_id

\* the priorities of the list never increase along it
SortedByPriority(pols) ==
    \A i, j \in 1..Len(pols) : i < j => pols[i].priority >= pols[j].priority

(* C17: the stored policies are sorted by non-increasing priority after
   every successful create_policy call, an insert or a replace (also one
   that changes the priority of a policy), and so in every state. *)
C17_PoliciesSorted ==
    [][/\ (result'.op = "create_policy" /\ result'.ret.success)
          => /\ SortedByPriority(policies')
             /\ \E k \in 1..Len(policies') :
                  /\ policies'[k].id = result'.input.policy_id
                  /\ policies'[k].priority = result'.input.priority
       /\ SortedByPriority(policies')]_vars

\* a replace raised the priority of the younger policy and moved it first
C17_Witness ==
    /\ result.op = "create_policy"
    /\ result.ret.success
    /\ result.ret.message = "updated"
    /\ Len(policies) = 2
    /\ policies[1].id = result.input.policy_id
    /\ policies[1].priority > policies[2].priority
    /\ policies[1].created_at > policies[2].created_at

\* steps 1 to 3 of the evaluation did not decide: the agent is not suspended
\* and the evaluation over its tool lists alone comes to the default
ListsPass ==
    /\ ValidateStep
    /\ ~SubjectSuspended
    /\ LET id == result'.agent_id
       IN  evaluate_policies(result'.action_type, result'.target, id,
                             id :> Subject, <<>>) = default_allow

\* rule j of policy i is consulted and triggers a decisive outcome, as specified
TriggerAt(i, j) ==
    /\ policies[i].enabled
    /\ Triggers(policies[i].rules[j], result'.action_type, result'.target,
                Subject.trust_level)

\* it is the first to do so in policy order, then rule order
FirstTrigger(i, j) ==
    /\ TriggerAt(i, j)
    /\ \A i2 \in 1..i : \A j2 \in 1..Len(policies[i2].rules) :
         (i2 < i \/ j2 < j) => ~TriggerAt(i2, j2)

\* the message of the rule, or the default text of the outcome
MessageOr(rule, default) ==
    IF rule.message = Absent THEN default ELSE Reason("message", rule.message[1], "")

\* the decisive outcome of a triggering rule, as specified: allowed,
\* require_approval and reason
RuleDecision(rule, policy, trust_level) ==
    LET c == rule.condition
        action == Get(rule.action, "deny")
    IN  IF /\ c.trust_level_at_least # ""
           /\ trust_score(trust_level) < trust_score(c.trust_level_at_least)
           /\ action = "deny"
        THEN <<FALSE, FALSE, Reason("requires_trust", c.trust_level_at_least, trust_level)>>
        ELSE IF action = "deny"
             THEN <<FALSE, FALSE, MessageOr(rule, Reason("denied_by_policy", policy.id, ""))>>
             ELSE <<FALSE, TRUE, MessageOr(rule, Reason("requires_human_approval", "", ""))>>

\* the call returns this outcome
Decides(d) ==
    /\ ~result'.raised
    /\ result'.ret.allowed = d[1]
    /\ Get(result'.ret.require_approval, FALSE) = d[2]
    /\ result'.ret.reason = d[3]

(* C18: when the agent is not suspended and its tool lists do not decide,
   the decision returned is the one of the first rule, in stored policy
   order and then rule order over the enabled policies, that triggers a deny
   or a require_approval; the rules after it play no part. *)
C18_FirstDecisiveRuleWins ==
    [][\A i \in 1..Len(policies) : \A j \in 1..Len(policies[i].rules) :
         (ListsPass /\ FirstTrigger(i, j))
         => /\ Decides(RuleDecision(policies[i].rules[j], policies[i],
                                     Subject.trust_level))
            /\ result'.ret = validate_result(result'.ret.action_id,
                                  result'.action_type, result'.target,
                                  result'.agent_id, agents', Before(i, j + 1))]_vars

(* C19: a rule with action allow decides nothing and stops nothing: the call
   returns what it returns without that rule, and an allow rule in front of
   a triggering deny or require_approval rule does not keep the call from
   being denied. *)
C19_AllowRuleInert ==
    [][/\ \A i \in 1..Len(policies) : \A j \in 1..Len(policies[i].rules) :
            (ValidateStep /\ Get(policies[i].rules[j].action, "deny") = "allow")
            => AsWithout(i, j)
       /\ \A i \in 1..Len(policies) : \A j \in 2..Len(policies[i].rules) :
            (/\ ListsPass
             /\ FirstTrigger(i, j)
             /\ Get(policies[i].rules[j - 1].action, "deny") = "allow")
            => (~result'.raised /\ ~result'.ret.allowed)]_vars

\* a deny or require_approval rule with no trust clause
PlainRule(rule) ==
    /\ Get(rule.action, "deny") \in {"deny", "require_approval"}
    /\ rule.condition.trust_level_at_least = ""
    /\ rule.condition.trust_level_below = ""

\* every pattern the rule has matches the call, as specified
ConditionHolds(rule) ==
    LET c == rule.condition
    IN  /\ c.tool_pattern = <<>> \/ GlobMatch(c.tool_pattern, result'.target)
        /\ c.action_type = <<>> \/ GlobMatch(c.action_type, result'.action_type)

(* C20: an enabled rule with action deny (or require_approval) that has no
   trust clause and whose tool_pattern and action_type, as far as present,
   match the call decides the call when the evaluation reaches it: deny (or
   require approval), with the rule's message. *)
C20_PlainRuleApplies ==
    [][\A i \in 1..Len(policies) : \A j \in 1..Len(policies[i].rules) :
         LET rule == policies[i].rules[j]
         IN  (Reaches(i, j) /\ PlainRule(rule) /\ ConditionHolds(rule))
             => Decides(<<FALSE, Get(rule.action, "deny") = "require_approval",
                          MessageOr(rule, IF Get(rule.action, "deny") = "deny"
                                          THEN Reason("denied_by_policy", policies[i].id, "")
                                          ELSE Reason("requires_human_approval", "", ""))>>)]_vars

\* what validate_action returns for the call of the step over other policies
ResultOver(pols) ==
    validate_result(result'.ret.action_id, result'.action_type, result'.target,
                    result'.agent_id, agents', pols)

\* the policies with the trust_level_at_least clause of rule j of policy i taken out
AtLeastCleared(i, j) ==
    [policies EXCEPT ![i].rules[j].condition.trust_level_at_least = ""]

\* the policies with the action of rule j of policy i replaced
WithAction(i, j, action) ==
    [policies EXCEPT ![i].rules[j].action = Some(action)]

(* C21: for a rule that is reached and matches, with trust_level_at_least L:
   when the agent's score is below the score of L and the action is deny the
   call is denied with the reason naming L and the agent's level; with any
   other action, or with a score that reaches L, the clause triggers
   nothing: the call returns what it returns with the clause taken out. *)
C21_AtLeastOnlyBlocks ==
    [][\A i \in 1..Len(policies) : \A j \in 1..Len(policies[i].rules) :
         LET rule == policies[i].rules[j]
             L == rule.condition.trust_level_at_least
         IN  (Reaches(i, j) /\ PatternsMatch(rule) /\ L # "")
             => IF /\ trust_score(Subject.trust_level) < trust_score(L)
                   /\ Get(rule.action, "deny") = "deny"
                THEN /\ Denies("requires_trust")
                     /\ result'.ret.reason.a = L
                     /\ result'.ret.reason.b = Subject.trust_level
                ELSE result'.ret = ResultOver(AtLeastCleared(i, j))]_vars

\* a low-trust agent under an allow and a require_approval rule that name
\* trust_level_at_least high: no trust denial, the second rule asks for
\* approval through its trust_level_below
C21_Witness ==
    /\ ValidateDone
    /\ Caller.trust_level = "low"
    /\ Caller.status # Some("suspended")
    /\ policies # <<>>
    /\ policies[1].enabled
    /\ policies[1].rules = <<AllowAtLeastHigh, ApproveAtLeastHigh>>
    /\ result.target = <<"D", "x">>
    /\ ~result.raised
    /\ result.ret.reason = Reason("message", "m10", "")
    /\ result.ret.require_approval = Some(TRUE)

(* C22: a rule that is reached and matches, with trust_level_below L and an
   agent whose score is strictly below the score of L: with action
   require_approval the call returns require_approval = true with the
   rule's message; with action allow the rule does nothing, the call
   returns what it returns without the rule. *)
C22_BelowRequiresApproval ==
    [][\A i \in 1..Len(policies) : \A j \in 1..Len(policies[i].rules) :
         LET rule == policies[i].rules[j]
             L == rule.condition.trust_level_below
             action == Get(rule.action, "deny")
         IN  (/\ Reaches(i, j)
              /\ PatternsMatch(rule)
              /\ L # ""
              /\ trust_score(Subject.trust_level) < trust_score(L))
             => /\ action = "require_approval"
                   => /\ Decides(<<FALSE, TRUE,
                                   MessageOr(rule, Reason("requires_human_approval", "", ""))>>)
                      /\ ResultOver(WithAction(i, j, "allow")) = ResultOver(Without(i, j))
                /\ action = "allow" => AsWithout(i, j)]_vars

\* a registered medium-trust agent is asked for approval by a rule with
\* trust_level_below high
C22_Witness ==
    /\ ValidateDone
    /\ Caller.trust_level = "medium"
    /\ Caller.status = Some("active")
    /\ policies # <<>>
    /\ policies[1].enabled
    /\ policies[1].rules = <<ApproveBelowHigh>>
    /\ ~result.raised
    /\ ~result.ret.allowed
    /\ result.ret.require_approval = Some(TRUE)
    /\ result.ret.reason = Reason("message", "m2", "")

\* the enabled policies, in their stored order
EnabledOnly(pols) == SelectSeq(pols, LAMBDA pol : pol.enabled)

(* C23: every validate_action call returns what it returns with the
   policies whose enabled flag is false taken out of the collection. *)
C23_DisabledPoliciesIgnored ==
    [][ValidateStep => result'.ret = ResultOver(EnabledOnly(policies))]_vars

\* a disabled policy whose rule would deny stands first and the call is allowed
C23_Witness ==
    /\ ValidateDone
    /\ Len(policies) = 2
    /\ ~policies[1].enabled
    /\ policies[1].rules = <<DenyBelowAdmin>>
    /\ Caller.trust_level = "medium"
    /\ Caller.status = Some("active")
    /\ Caller.denied_tools = Some(<<>>)
    /\ result.target = <<"D", "x">>
    /\ ~result.raised
    /\ result.ret.allowed

(* C24: any two stored policies of equal priority stand in the order in
   which their ids were first inserted (created_at is the time of the first
   insert of an id: a replace keeps it). *)
C24_TiesByFirstInsertion ==
    [][\A i, j \in 1..Len(policies') :
         (i < j /\ policies'[i].priority = policies'[j].priority)
         => policies'[i].created_at < policies'[j].created_at]_vars

(* C25: every stored policy has at least one rule, and every rule of it is
   an object with a non-empty condition and an action field that is one of
   allow, deny, require_approval. *)
C25_StoredPoliciesValid ==
    \A i \in 1..Len(policies) :
        /\ policies[i].rules # <<>>
        /\ \A j \in 1..Len(policies[i].rules) :
             LET rule == policies[i].rules[j]
             IN  /\ rule.is_dict
                 /\ rule.condition # EmptyCondition
                 /\ rule.action # Absent
                 /\ Get(rule.action, "") \in {"allow", "deny", "require_approval"}

\* the fields of an agent record a suspension leaves alone
SameButSuspension(old, new) ==
    /\ new.trust_level = old.trust_level
    /\ new.allowed_tools = old.allowed_tools
    /\ new.denied_tools = old.denied_tools
    /\ new.auto_registered = old.auto_registered
    /\ new.registered_at = old.registered_at
    /\ new.updated_at = old.updated_at

(* C26: report_incident changes the agents only when the severity is
   critical and the agent_id is non-empty and stored: then the status, the
   suspension time and the suspension reason of that agent, and nothing
   else; in every other case the agents are unchanged (an unknown agent is
   not created) and agent_suspended is false. *)
C26_ReportIncidentFrame ==
    [][result'.op = "report_incident"
        => LET in == result'.input
           IN  IF in.severity = "critical" /\ in.agent_id # ""
                  /\ in.agent_id \in DOMAIN agents
               THEN /\ result'.ret.agent_suspended
                    /\ DOMAIN agents' = DOMAIN agents
                    /\ \A a \in DOMAIN agents \ {in.agent_id} : agents'[a] = agents[a]
                    /\ SameButSuspension(agents[in.agent_id], agents'[in.agent_id])
                    /\ agents'[in.agent_id].status = Some("suspended")
                    /\ agents'[in.agent_id].suspended_at = Some(clock')
                    /\ agents'[in.agent_id].suspension_reason
                         = Some(result'.ret.incident_id)
               ELSE /\ agents' = agents
                    /\ ~result'.ret.agent_suspended]_vars

\* an admin with tool lists is suspended and keeps them, beside another agent
C26_Witness ==
    /\ result.op = "report_incident"
    /\ result.ret.agent_suspended
    /\ Cardinality(DOMAIN agents) = 2
    /\ LET me == agents[result.input.agent_id]
       IN  /\ me.status = Some("suspended")
           /\ me.trust_level = "admin"
           /\ me.denied_tools = Some(<<PD>>)
           /\ me.suspension_reason = Some(result.ret.incident_id)

(* C27: no call removes an agent: every agent id stored before a call is
   stored after it. *)
C27_AgentsNeverDeleted ==
    [][DOMAIN agents \subseteq DOMAIN agents']_vars

\* two agents, one registered and one auto-registered, after a third call
C27_Witness ==
    /\ clock = MaxCalls
    /\ Cardinality(DOMAIN agents) = 2
    /\ \E a, b \in DOMAIN agents :
         /\ agents[a].auto_registered
         /\ ~agents[b].auto_registered
         /\ agents[a].registered_at < agents[b].registered_at
    /\ result.op = "register_agent"
    /\ result.ret.success

(* C30: validate_action leaves the policies as they are and changes no
   stored agent: all it can do to the agents is add the record of a
   requesting agent that was not stored; a denied call suspends nobody. *)
C30_ValidateActionFrame ==
    [][ValidateStep
        => /\ policies' = policies
           /\ \A a \in DOMAIN agents : a \in DOMAIN agents' /\ agents'[a] = agents[a]
           /\ DOMAIN agents' \subseteq DOMAIN agents \cup {result'.agent_id}
           /\ \A a \in DOMAIN agents' : 
                agents'[a].status = Some("suspended")
                => (a \in DOMAIN agents /\ agents[a].status = Some("suspended"))]_vars

\* a registered agent denied twice is still active
C30_Witness ==
    /\ ValidateDone
    /\ ~result.ret.allowed
    /\ Caller.status = Some("active")
    /\ Len(incidents) = 2
    /\ \A k \in 1..2 : /\ incidents[k].agent_id = Some(result.agent_id)
                        /\ incidents[k].type = "policy_violation"

(* C28: when the write of the agents collection fails inside register_agent,
   or the write of the policies collection inside create_policy, the call
   returns success = false. *)
C28_WriteFailureSurfaced ==
    [][(/\ result'.op \in {"register_agent", "create_policy"}
        /\ result'.store \in {"failed", "truncated"})
        => ~result'.ret.success]_vars

(* C29: a text that does not parse stands for the empty value and the call
   goes on: validate_action with such parameters returns, records the
   request with empty parameters and decides as it does for any parameters;
   register_agent with such allowed_tools or denied_tools succeeds and
   stores the empty list for that field, and an empty list never denies. *)
C29_MalformedInputDegrades ==
    [][/\ (ValidateStep /\ result'.parameters.kind = "malformed")
          => /\ ~result'.raised
             /\ result'.ret = ResultOver(policies)
             /\ OneAppended(audit_log, audit_log')
             /\ Last(audit_log').action_id = Some(result'.ret.action_id)
             /\ Last(audit_log').parameters = Some(<<>>)
       /\ RegisterStep
          => LET in == result'.input
             IN  /\ result'.ret.success
                 /\ (result'.store = "saved" /\ in.allowed_tools.kind = "malformed")
                      => agents'[in.agent_id].allowed_tools = Some(<<>>)
                 /\ (result'.store = "saved" /\ in.denied_tools.kind = "malformed")
                      => agents'[in.agent_id].denied_tools = Some(<<>>)
       /\ (ValidateStep /\ SubjectAllowed = <<>>) => ~Denies("not_in_allowed_list")
       /\ (ValidateStep /\ SubjectDenied = <<>>) => ~Denies("explicitly_denied")]_vars

\* an agent registered with allowed_tools that do not parse passes the allow
\* list, in a call whose parameters do not parse either
C29_Witness ==
    /\ ValidateDone
    /\ result.parameters = Malformed
    /\ Last(audit_log).parameters = Some(<<>>)
    /\ ~Caller.auto_registered
    /\ Caller.allowed_tools = Some(<<>>)
    /\ Caller.denied_tools = Some(<<PD>>)
    /\ result.target = <<"r", "x">>
    /\ ~result.raised
    /\ result.ret.allowed

\* the step is a call of the matcher
MatchStep == result'.op = "match_pattern"

\* no character of the pattern is one re reads as syntax
PlainPattern(pattern) ==
    \A i \in 1..Len(pattern) : pattern[i] \notin {".", "["}

(* C31: matching ignores case and is anchored at both ends: over patterns
   of letters and '*', the matcher returns true exactly when the whole value
   is the pattern with every '*' replaced by some run of characters. *)
C31_AnchoredGlob ==
    [][(MatchStep /\ PlainPattern(result'.pattern))
        => /\ ~result'.raised
           /\ result'.ret = GlobMatch(result'.pattern, result'.value)]_vars

\* the values equal to the pattern, case ignored
EqualIgnoringCase(pattern, value) ==
    /\ Len(pattern) = Len(value)
    /\ \A i \in 1..Len(pattern) : Lower(pattern[i]) = Lower(value[i])

HasStar(pattern) == \E i \in 1..Len(pattern) : pattern[i] = "*"

(* C32: the matcher returns a boolean for every pattern and value, and a
   pattern without '*' matches exactly the values equal to it, case
   ignored. *)
C32_LiteralNeverThrows ==
    [][MatchStep
        => /\ ~result'.raised
           /\ ~HasStar(result'.pattern)
                => result'.ret = EqualIgnoringCase(result'.pattern, result'.value)]_vars

\* no call is in flight
AllReturned == \A p \in Procs : calls[p].pc = "idle"

(* C33: with overlapping calls an update of the agents collection can be
   lost: a call writes the collection as it loaded it, with its own change,
   so every other record is put back to what the call read, whatever was
   stored in between. *)
C33_WriteFromSnapshot ==
    [][\A p \in Procs :
          (calls[p].pc = "save_agents" /\ calls'[p].pc # "save_agents")
            => \A a \in DOMAIN calls[p].agents :
                  a # calls[p].agent_id => /\ a \in DOMAIN agents'
                                           /\ agents'[a] = calls[p].agents[a]]_vars

\* a report_incident that returned had suspended a1, an auto-registration of
\* a2 that had loaded the agents before wrote them after, and a
\* validate_action for a1 begun after both had returned is allowed
C33_Witness ==
    /\ AllReturned
    /\ \E k \in 1..Len(incidents) :
          /\ incidents[k].severity = "critical"
          /\ incidents[k].agent_id = Some("a1")
    /\ "a2" \in DOMAIN agents
    /\ agents["a2"].auto_registered
    /\ agents["a1"].status = Some("active")
    /\ result.op = "validate_action"
    /\ result.agent_id = "a1"
    /\ result.began_alone
    /\ result.id = MaxConcurrentCalls
    /\ result.ret.allowed

(* C34: once every call has returned and the log is not over its cap, the
   audit log holds the entry of every call. *)
C34_NoAuditEntryLost ==
    (AllReturned /\ clock <= max_items)
        => \A id \in 1..clock :
              \E k \in 1..Len(audit_log) : audit_log[k].entry_id = id

(* C35: a register_agent call that succeeds leaves the agent active: its
   stored record has status active and no suspension reason or timestamp,
   also when the agent was suspended before, and a validate_action for an
   agent stored as active is not denied for suspension. *)
C35_RegistrationReactivates ==
    [][/\ (RegisterStep /\ result'.ret.success)
          => LET id == result'.input.agent_id
             IN  /\ id \in DOMAIN agents'
                 /\ agents'[id].status = Some("active")
                 /\ agents'[id].suspended_at = Absent
                 /\ agents'[id].suspension_reason = Absent
       /\ (ValidateStep /\ Subject.status = Some("active"))
          => ~Denies("suspended")]_vars

\* a1 was stored before a critical incident suspended it, and was registered
\* again after
C35_Witness ==
    /\ result.op = "register_agent"
    /\ result.ret.success
    /\ result.ret.is_update
    /\ result.input.agent_id = "a1"
    /\ agents["a1"].status = Some("active")
    /\ agents["a1"].updated_at = Some(clock)
    /\ \E k \in 1..Len(incidents) :
          /\ incidents[k].severity = "critical"
          /\ incidents[k].agent_id = Some("a1")
          /\ agents["a1"].registered_at < incidents[k].timestamp
          /\ incidents[k].timestamp < clock

\* the step is a register_agent call for a that succeeds
Reregisters(a) ==
    /\ RegisterStep
    /\ result'.ret.success
    /\ result'.input.agent_id = a

\* the step is a report_incident call with a critical incident for a
ReportsCritical(a) ==
    /\ result'.op = "report_incident"
    /\ result'.ret.severity = "critical"
    /\ result'.input.agent_id = a

(* C36: suspension is sticky: with calls one at a time, an agent stored as
   suspended stays suspended over every call but a register_agent for its
   own id that succeeds; a further critical incident for it keeps it
   suspended and overwrites the suspension reason and timestamp; every
   other call leaves its record as it is. *)
C36_SuspensionSticky ==
    [][\A a \in DOMAIN agents :
          agents[a].status = Some("suspended")
            => /\ a \in DOMAIN agents'
               /\ ~Reregisters(a) => agents'[a].status = Some("suspended")
               /\ ReportsCritical(a)
                    => /\ agents'[a].status = Some("suspended")
                       /\ agents'[a].suspended_at = Some(clock')
                       /\ agents'[a].suspension_reason
                             = Some(result'.ret.incident_id)
               /\ (~Reregisters(a) /\ ~ReportsCritical(a))
                    => agents'[a] = agents[a]]_vars

\* a1, suspended by a critical incident, has been suspended again by a
\* second one
C36_Witness ==
    /\ result.op = "report_incident"
    /\ result.ret.agent_suspended
    /\ result.input.agent_id = "a1"
    /\ agents["a1"].status = Some("suspended")
    /\ agents["a1"].suspended_at = Some(clock)
    /\ \E k \in 1..Len(incidents) :
          /\ incidents[k].severity = "critical"
          /\ incidents[k].agent_id = Some("a1")
          /\ agents["a1"].registered_at < incidents[k].timestamp
          /\ incidents[k].timestamp < clock

(* C37: no validate_action result has allowed = true together with
   require_approval = true, and neither has the evaluation recorded in its
   audit entry. *)
C37_ApprovalNeverAllowed ==
    [][(ValidateStep /\ ~result'.raised)
        => /\ ~(result'.ret.allowed /\ Get(result'.ret.require_approval, FALSE))
           /\ Last(audit_log').action_id = Some(result'.ret.action_id)
           /\ ~(Last(audit_log').allowed
                 /\ Get(Last(audit_log').require_approval, FALSE))]_vars

\* a result that requires approval, recorded as such
C37_Witness ==
    /\ ValidateDone
    /\ ~result.raised
    /\ result.ret.require_approval = Some(TRUE)
    /\ ~result.ret.allowed
    /\ Last(audit_log).require_approval = Some(TRUE)
    /\ ~Last(audit_log).allowed

\* the trust levels, lowest first
TrustOrder == <<"low", "medium", "high", "admin">>

\* the levels above a level
Higher(level) ==
    { TrustOrder[k] : k \in { h \in 1..Len(TrustOrder) :
                                 \E l \in 1..(h - 1) : TrustOrder[l] = level } }

\* what the call returns when the agent it decides about has this trust
\* level, everything else as it is
ResultWithTrust(level) ==
    validate_result(result'.ret.action_id, result'.action_type, result'.target,
                    result'.agent_id,
                    [agents' EXCEPT ![result'.agent_id].trust_level = level],
                    policies)

(* C38: decisions are monotone in trust: a request validate_action allows
   for an agent is also allowed when the agent has any higher trust level,
   with the policies, the action type, the target, the agent's status and
   its tool lists the same. *)
C38_MonotoneInTrust ==
    [][(ValidateStep /\ ~result'.raised /\ result'.ret.allowed)
        => \A level \in Higher(agents'[result'.agent_id].trust_level) :
              /\ ~ResultWithTrust(level).raised
              /\ ResultWithTrust(level).allowed]_vars

\* a request allowed for a medium agent that the same policies deny to a
\* low one
C38_Witness ==
    /\ ValidateDone
    /\ ~result.raised
    /\ result.ret.allowed
    /\ Caller.trust_level = "medium"
    /\ policies # <<>>
    /\ ~validate_result(result.ret.action_id, result.action_type, result.target,
                        result.agent_id,
                        [agents EXCEPT ![result.agent_id].trust_level = "low"],
                        policies).allowed

\* the agent the call decides about is an admin that is not suspended and
\* has no tool lists
SubjectAdmin ==
    /\ Subject.trust_level = "admin"
    /\ ~SubjectSuspended
    /\ SubjectAllowed = <<>>
    /\ SubjectDenied = <<>>

(* C39: an admin has full access at the policy layer: for an agent that is
   not suspended, has trust level admin and empty allowed_tools and
   denied_tools, validate_action returns allowed = true for every action
   type and target under every stored policy set. *)
C39_AdminFullAccess ==
    [][(ValidateStep /\ SubjectAdmin)
        => /\ ~result'.raised
           /\ result'.ret.allowed]_vars

====
